---- MODULE Spec2Model ----
(***************************************************************************)
(* Model of src/main.py: the /ask-symptom endpoint of the ParentPal API.   *)
(*                                                                         *)
(* Strings are TLA+ strings; characters are strings of length one.  The   *)
(* two non-ASCII glyphs of the fixed messages (the warning sign and the   *)
(* siren) are written "(!)" and "(SOS)".                                  *)
(*                                                                         *)
(* FastAPI runs a plain `def` handler on a thread pool, so several         *)
(* ask_symptom calls are in flight at once; each worker w executes the     *)
(* handler one statement group at a time (pc[w]).                          *)
(***************************************************************************)
EXTENDS Integers, Sequences, FiniteSets, TLC

VARIABLES
    workers,             \* the thread-pool workers serving requests
    traffic,             \* which request bodies clients send: "any" or "mixed"
    pc,                  \* pc[w]: where worker w is in ask_symptom
    request,             \* request[w]: the SymptomRequest being served
    combined_query,      \* local of ask_symptom, main.py:112
    structured_query,    \* local of ask_symptom, main.py:129
    reply,               \* what model.generate_content did for this request
    exc,                 \* message of the exception raised in the try block
    verdict,             \* what the two classifiers answered for this request
    result,              \* the HTTP outcome of the request
    calls,               \* number of generate_content calls of this request
    trace                \* the stages this request went through, in order

vars == << workers, traffic, pc, request, combined_query, structured_query, reply, exc, verdict, result,
           calls, trace >>

\* the environment, which no statement of the handler assigns
globals == << workers, traffic >>

----------------------------------------------------------------------------
(* Bounds and program constants *)

NumWorkers == 2

MinNameLen == 2
MinDescriptionLen == 5
HTTP_OK == 200
HTTP_BAD_REQUEST == 400
HTTP_SERVER_ERROR == 500

----------------------------------------------------------------------------
(* Python string primitives *)

UpperChars == << "A","B","C","D","E","F","G","H","I","J","K","L","M",
                 "N","O","P","Q","R","S","T","U","V","W","X","Y","Z" >>
LowerChars == << "a","b","c","d","e","f","g","h","i","j","k","l","m",
                 "n","o","p","q","r","s","t","u","v","w","x","y","z" >>

\* str.lower() on one character
LowerChar(c) ==
    IF \E i \in 1..26 : UpperChars[i] = c
      THEN LowerChars[CHOOSE i \in 1..26 : UpperChars[i] = c]
      ELSE c

\* characters i..j of s, lowercased (halving keeps the recursion shallow)
RECURSIVE LowerRange(_, _, _)
LowerRange(s, i, j) ==
    IF i > j THEN ""
    ELSE IF i = j THEN LowerChar(SubSeq(s, i, i))
    ELSE LET m == (i + j) \div 2
         IN  LowerRange(s, i, m) \o LowerRange(s, m + 1, j)

\* str.lower()
lower(s) == LowerRange(s, 1, Len(s))

\* the characters str.strip() removes
IsSpace(c) == c \in {" ", "\t", "\n", "\r", "\f"}

\* str.strip()
strip(s) ==
    LET keep == { i \in 1..Len(s) : ~IsSpace(SubSeq(s, i, i)) }
    IN  IF keep = {} THEN ""
        ELSE LET first == CHOOSE i \in keep : \A j \in keep : i <= j
                 last  == CHOOSE i \in keep : \A j \in keep : j <= i
             IN  SubSeq(s, first, last)

\* the `in` operator on strings: word in text
Contains(text, word) ==
    \E i \in 1..(Len(text) - Len(word) + 1) :
        SubSeq(text, i, i + Len(word) - 1) = word

\* str.count(word), for a word that cannot overlap itself
Count(text, word) ==
    Cardinality({ i \in 1..(Len(text) - Len(word) + 1) :
                    SubSeq(text, i, i + Len(word) - 1) = word })

StartsWith(text, prefix) ==
    /\ Len(prefix) <= Len(text)
    /\ SubSeq(text, 1, Len(prefix)) = prefix

EndsWith(text, suffix) ==
    /\ Len(suffix) <= Len(text)
    /\ SubSeq(text, Len(text) - Len(suffix) + 1, Len(text)) = suffix

----------------------------------------------------------------------------
(* Module constants of main.py.  No statement of main.py assigns to or     *)
(* mutates the two keyword lists, so they are constants here.              *)

ALLOWED_KEYWORDS ==
    << "child", "baby", "infant", "toddler", "kid", "newborn",
       "fever", "cough", "vomiting", "diarrhea", "constipation",
       "rash", "vaccination", "vaccine", "immunization",
       "weight", "height", "growth", "development",
       "milestone", "sleep", "nutrition", "feeding", "breastfeed",
       "teething", "diaper", "allergy", "cold", "flu" >>

EMERGENCY_KEYWORDS ==
    << "seizure", "seizures", "unconscious", "unconsciousness",
       "not breathing", "choking", "asphyxia",
       "blue lips", "cyanosis", "severe breathing",
       "very high fever", "high fever over", "104", "40c",
       "severe bleeding", "unresponsive", "poisoning", "overdose",
       "severe allergic", "anaphylaxis", "head injury", "fall",
       "unable to wake", "extreme lethargy", "rigid neck" >>

REFUSAL_TEXT ==
    "I'm specifically designed to help with child health questions. This question appears unrelated to child health."

EMERGENCY_TEXT ==
    "(SOS) EMERGENCY ALERT: Based on your description, this may be a medical emergency. Call emergency services or visit the nearest hospital immediately."

DISCLAIMER ==
    "\n\n(!) Disclaimer: This information is for educational purposes only and is NOT a medical diagnosis. Please consult a pediatrician for proper medical advice."

NAME_DETAIL == "Please provide a symptom name"
DESCRIPTION_DETAIL == "Please provide a detailed description"
ERROR_PREFIX == "An error occurred: "
EMPTY_REPLY_MESSAGE == "Empty response from API"

----------------------------------------------------------------------------
(* Pure functions of main.py *)

\* any(word in text_lower for word in keywords)
AnyKeywordIn(keywords, text_lower) ==
    \E i \in 1..Len(keywords) : Contains(text_lower, keywords[i])

is_child_health_query(text) == AnyKeywordIn(ALLOWED_KEYWORDS, lower(text))

is_emergency(text) == AnyKeywordIn(EMERGENCY_KEYWORDS, lower(text))

\* sanitize_response with a case-insensitive presence test
sanitize_response_AnyCase(response_text) ==
    IF ~Contains(lower(response_text), "disclaimer")
      THEN response_text \o DISCLAIMER
      ELSE response_text

sanitize_response(response_text) ==
    IF ~Contains(response_text, "Disclaimer")
      THEN response_text \o DISCLAIMER
      ELSE response_text

\* the combined text with the duration field left out
CombinedQuery_NoDuration(req) ==
    lower(req.symptom_name \o " " \o req.description \o " " \o req.severity)

\* the combined text with the fields joined without separators
CombinedQuery_NoSeparator(req) ==
    lower(req.symptom_name \o req.description \o req.severity \o req.duration)

\* the f-string of main.py:112 with its .lower()
CombinedQuery(req) ==
    lower(req.symptom_name \o " " \o req.description \o " "
          \o req.severity \o " " \o req.duration)

\* the f-string of main.py:129-136
StructuredQuery(req) ==
    "\n        Symptom: " \o req.symptom_name
    \o "\n        Description: " \o req.description
    \o "\n        Severity: " \o req.severity
    \o "\n        Duration: " \o req.duration
    \o "\n        \n        Please provide guidance for this child health concern.\n        "

\* the name check without .strip()
NameTooShort_NoStrip(req) ==
    req.symptom_name = "" \/ Len(req.symptom_name) < MinNameLen

NameTooShort(req) ==
    req.symptom_name = "" \/ Len(strip(req.symptom_name)) < MinNameLen

DescriptionTooShort(req) ==
    req.description = "" \/ Len(strip(req.description)) < MinDescriptionLen

----------------------------------------------------------------------------
(* Inputs *)

SymptomNames ==
    { "", "  ", "a", " a ", "Kid", "fever", "seizure", "headache",
      "turning blue" }

Descriptions ==
    { "", "hurt", "  ab  ", "lips are dry", "my BABY cries",
      "he is choking", "scolded today", "pain in the arm",
      "saw a Waterfall" }

Severities == { "mild", "104", "very high", "Cold" }

Durations == { "2 days", "fever 3 days", "1 Week" }

Requests ==
    [ symptom_name : SymptomNames, description : Descriptions,
      severity : Severities, duration : Durations ]

MkRequest(n, d, s, u) ==
    [ symptom_name |-> n, description |-> d, severity |-> s, duration |-> u ]

\* the request bodies sent while several requests are in flight: one per
\* way out of the handler
MixedRequests ==
    { MkRequest("a", "my BABY cries", "mild", "2 days"),
      MkRequest("headache", "pain in the arm", "mild", "2 days"),
      MkRequest("fever", "he is choking", "mild", "2 days"),
      MkRequest("fever", "my BABY cries", "mild", "2 days"),
      MkRequest("Kid", "scolded today", "very high", "1 Week") }

\* what response.text can be when generate_content returns
ModelTexts ==
    { "", "Give fluids.", "Give fluids. Disclaimer: see a doctor.",
      "Disclaimer: a. Disclaimer: b.", "Rest. disclaimer: ask a doctor.",
      "Give fluids." \o DISCLAIMER, REFUSAL_TEXT }

\* what model.generate_content(...) can do: raise (with or without a
\* message), or return a response
ModelOutcomes ==
    { [raises |-> TRUE, text |-> "quota exceeded"],
      [raises |-> TRUE, text |-> ""] }
    \cup { [raises |-> FALSE, text |-> t] : t \in ModelTexts }

\* the model outcomes met while several requests are in flight
MixedOutcomes ==
    { o \in ModelOutcomes :
        o.text \in {"quota exceeded", "Give fluids.",
                    "Give fluids. Disclaimer: see a doctor."} }

OutcomesOf(kind) == IF kind = "any" THEN ModelOutcomes ELSE MixedOutcomes

RequestsOf(kind) == IF kind = "any" THEN Requests ELSE MixedRequests

NoRequest == MkRequest("", "", "", "")
NoReply == [raises |-> FALSE, text |-> "-"]
NoResult == [status |-> 0, body |-> [detail |-> ""]]
NoVerdict == [child |-> "unset", emergency |-> "unset"]

YesNo(b) == IF b THEN "yes" ELSE "no"

----------------------------------------------------------------------------
(* The handler ask_symptom, one action per statement group *)

Goto(w, label, stage) ==
    /\ pc' = [pc EXCEPT ![w] = label]
    /\ trace' = [trace EXCEPT ![w] = Append(@, stage)]

\* a request arrives and an idle worker starts ask_symptom on it
Receive(w) ==
    /\ pc[w] = "idle"
    /\ \E req \in RequestsOf(traffic) : request' = [request EXCEPT ![w] = req]
    /\ pc' = [pc EXCEPT ![w] = "validate_name"]
    /\ UNCHANGED << globals, combined_query, structured_query, reply, exc,
                    verdict, result, calls, trace >>

\* the handler has returned or raised: the framework sends the response,
\* the frame and its locals are gone and the worker is free again
Respond(w) ==
    /\ pc[w] = "done"
    /\ pc' = [pc EXCEPT ![w] = "idle"]
    /\ request' = [request EXCEPT ![w] = NoRequest]
    /\ trace' = [trace EXCEPT ![w] = << >>]
    /\ combined_query' = [combined_query EXCEPT ![w] = ""]
    /\ structured_query' = [structured_query EXCEPT ![w] = ""]
    /\ reply' = [reply EXCEPT ![w] = NoReply]
    /\ exc' = [exc EXCEPT ![w] = ""]
    /\ verdict' = [verdict EXCEPT ![w] = NoVerdict]
    /\ result' = [result EXCEPT ![w] = NoResult]
    /\ calls' = [calls EXCEPT ![w] = 0]
    /\ UNCHANGED globals

\* main.py:100-104
ValidateName(w) ==
    /\ pc[w] = "validate_name"
    /\ IF NameTooShort(request[w])
         THEN /\ result' = [result EXCEPT ![w] =
                    [status |-> HTTP_BAD_REQUEST, body |-> [detail |-> NAME_DETAIL]]]
              /\ Goto(w, "done", "validate_name")
         ELSE /\ UNCHANGED result
              /\ Goto(w, "validate_description", "validate_name")
    /\ UNCHANGED << globals, request, combined_query, structured_query,
                    reply, exc, verdict, calls >>

\* main.py:106-110
ValidateDescription(w) ==
    /\ pc[w] = "validate_description"
    /\ IF DescriptionTooShort(request[w])
         THEN /\ result' = [result EXCEPT ![w] =
                    [status |-> HTTP_BAD_REQUEST, body |-> [detail |-> DESCRIPTION_DETAIL]]]
              /\ Goto(w, "done", "validate_description")
         ELSE /\ UNCHANGED result
              /\ Goto(w, "combine", "validate_description")
    /\ UNCHANGED << globals, request, combined_query, structured_query,
                    reply, exc, verdict, calls >>

\* combined_query kept in one module-level variable shared by all workers
BuildCombinedQuery_Shared(w) ==
    /\ pc[w] = "combine"
    /\ combined_query' = [v \in workers |-> CombinedQuery(request[w])]
    /\ Goto(w, "check_child_health", "combine")
    /\ UNCHANGED << globals, request, structured_query, reply, exc, verdict,
                    result, calls >>

\* main.py:112
BuildCombinedQuery(w) ==
    /\ pc[w] = "combine"
    /\ combined_query' = [combined_query EXCEPT ![w] = CombinedQuery(request[w])]
    /\ Goto(w, "check_child_health", "combine")
    /\ UNCHANGED << globals, request, structured_query, reply, exc, verdict,
                    result, calls >>

\* main.py:114-119
CheckChildHealth(w) ==
    /\ pc[w] = "check_child_health"
    /\ LET matched == is_child_health_query(combined_query[w])
       IN  /\ verdict' = [verdict EXCEPT ![w].child = YesNo(matched)]
           /\ IF ~matched
                THEN /\ result' = [result EXCEPT ![w] =
                           [status |-> HTTP_OK,
                            body |-> [response |-> REFUSAL_TEXT,
                                      emergency |-> FALSE,
                                      symptom |-> request[w].symptom_name]]]
                     /\ Goto(w, "done", "check_child_health")
                ELSE /\ UNCHANGED result
                     /\ Goto(w, "check_emergency", "check_child_health")
    /\ UNCHANGED << globals, request, combined_query, structured_query,
                    reply, exc, calls >>

\* main.py:121-126
CheckEmergency(w) ==
    /\ pc[w] = "check_emergency"
    /\ LET matched == is_emergency(combined_query[w])
       IN  /\ verdict' = [verdict EXCEPT ![w].emergency = YesNo(matched)]
           /\ IF matched
                THEN /\ result' = [result EXCEPT ![w] =
                           [status |-> HTTP_OK,
                            body |-> [response |-> EMERGENCY_TEXT,
                                      emergency |-> TRUE,
                                      symptom |-> request[w].symptom_name]]]
                     /\ Goto(w, "done", "check_emergency")
                ELSE /\ UNCHANGED result
                     /\ Goto(w, "call_model", "check_emergency")
    /\ UNCHANGED << globals, request, combined_query, structured_query,
                    reply, exc, calls >>

\* main.py:129-138: build the prompt and call the model; the call raises
\* or returns a response
CallModel(w) ==
    /\ pc[w] = "call_model"
    /\ structured_query' = [structured_query EXCEPT ![w] = StructuredQuery(request[w])]
    /\ calls' = [calls EXCEPT ![w] = @ + 1]
    /\ \E o \in OutcomesOf(traffic) :
         /\ reply' = [reply EXCEPT ![w] = o]
         /\ exc' = [exc EXCEPT ![w] = IF o.raises THEN o.text ELSE ""]
         /\ Goto(w, IF o.raises THEN "except" ELSE "check_reply", "call_model")
    /\ UNCHANGED << globals, request, combined_query, verdict, result >>

\* the answer returned without the empty-text test of main.py:140
ReturnAnswer_NoEmptyCheck(w) ==
    /\ pc[w] = "check_reply"
    /\ result' = [result EXCEPT ![w] =
          [status |-> HTTP_OK,
           body |-> [response |-> sanitize_response(reply[w].text),
                     emergency |-> FALSE,
                     symptom |-> request[w].symptom_name,
                     severity |-> request[w].severity,
                     duration |-> request[w].duration]]]
    /\ Goto(w, "done", "check_reply")
    /\ UNCHANGED << globals, request, combined_query, structured_query,
                    reply, exc, verdict, calls >>

\* main.py:140-151
ReturnAnswer(w) ==
    /\ pc[w] = "check_reply"
    /\ IF reply[w].text = ""
         THEN /\ exc' = [exc EXCEPT ![w] = EMPTY_REPLY_MESSAGE]
              /\ UNCHANGED result
              /\ Goto(w, "except", "check_reply")
         ELSE /\ result' = [result EXCEPT ![w] =
                    [status |-> HTTP_OK,
                     body |-> [response |-> sanitize_response(reply[w].text),
                               emergency |-> FALSE,
                               symptom |-> request[w].symptom_name,
                               severity |-> request[w].severity,
                               duration |-> request[w].duration]]]
              /\ UNCHANGED exc
              /\ Goto(w, "done", "check_reply")
    /\ UNCHANGED << globals, request, combined_query, structured_query,
                    reply, verdict, calls >>

\* an except clause that calls the model once more before giving up
HandleException_Retry(w) ==
    /\ pc[w] = "except"
    /\ IF calls[w] < 2
         THEN /\ UNCHANGED result
              /\ Goto(w, "call_model", "except")
         ELSE /\ result' = [result EXCEPT ![w] =
                    [status |-> HTTP_SERVER_ERROR,
                     body |-> [detail |-> ERROR_PREFIX \o exc[w]]]]
              /\ Goto(w, "done", "except")
    /\ UNCHANGED << globals, request, combined_query, structured_query,
                    reply, exc, verdict, calls >>

\* main.py:153-160
HandleException(w) ==
    /\ pc[w] = "except"
    /\ result' = [result EXCEPT ![w] =
          [status |-> HTTP_SERVER_ERROR,
           body |-> [detail |-> ERROR_PREFIX \o exc[w]]]]
    /\ Goto(w, "done", "except")
    /\ UNCHANGED << globals, request, combined_query, structured_query,
                    reply, exc, verdict, calls >>

----------------------------------------------------------------------------
(* Specifications *)

InitHandler ==
    /\ pc = [w \in workers |-> "idle"]
    /\ request = [w \in workers |-> NoRequest]
    /\ combined_query = [w \in workers |-> ""]
    /\ structured_query = [w \in workers |-> ""]
    /\ reply = [w \in workers |-> NoReply]
    /\ exc = [w \in workers |-> ""]
    /\ verdict = [w \in workers |-> NoVerdict]
    /\ result = [w \in workers |-> NoResult]
    /\ calls = [w \in workers |-> 0]
    /\ trace = [w \in workers |-> << >>]

\* one request at a time, every request body
Init ==
    /\ workers = {1}
    /\ traffic = "any"
    /\ InitHandler

\* NumWorkers requests in flight at once
InitConcurrent ==
    /\ workers = 1..NumWorkers
    /\ traffic = "mixed"
    /\ InitHandler

Next ==
    \/ \E w \in workers : Receive(w)
    \/ \E w \in workers : ValidateName(w)
    \/ \E w \in workers : ValidateDescription(w)
    \/ \E w \in workers : BuildCombinedQuery(w)
    \/ \E w \in workers : CheckChildHealth(w)
    \/ \E w \in workers : CheckEmergency(w)
    \/ \E w \in workers : CallModel(w)
    \/ \E w \in workers : ReturnAnswer(w)
    \/ \E w \in workers : HandleException(w)
    \/ \E w \in workers : Respond(w)

Spec == Init /\ [][Next]_vars

SpecConcurrent == InitConcurrent /\ [][Next]_vars

----------------------------------------------------------------------------
(* What the properties below speak about, stated on the request itself *)

Done(w) == pc[w] = "done"

FieldsOf(req) ==
    << req.symptom_name, req.description, req.severity, req.duration >>

\* the number of characters left after stripping whitespace at both ends
StrippedLen(s) ==
    LET keep == { i \in 1..Len(s) : SubSeq(s, i, i) \notin {" ", "\t", "\n", "\r", "\f"} }
    IN  IF keep = {} THEN 0
        ELSE (CHOOSE i \in keep : \A j \in keep : j <= i)
             - (CHOOSE i \in keep : \A j \in keep : i <= j) + 1

LongEnough(req) ==
    /\ StrippedLen(req.symptom_name) >= 2
    /\ StrippedLen(req.description) >= 5

\* the four fields, each lowercased, joined by single spaces
JoinedLower(req) ==
    lower(req.symptom_name) \o " " \o lower(req.description) \o " "
    \o lower(req.severity) \o " " \o lower(req.duration)

HasAllowed(req) ==
    \E i \in 1..Len(ALLOWED_KEYWORDS) :
        Contains(JoinedLower(req), ALLOWED_KEYWORDS[i])

HasEmergency(req) ==
    \E i \in 1..Len(EMERGENCY_KEYWORDS) :
        Contains(JoinedLower(req), EMERGENCY_KEYWORDS[i])

\* some single field contains one of the keywords, in any letter case
FieldHas(req, keywords) ==
    \E f \in 1..4 : \E i \in 1..Len(keywords) :
        Contains(lower(FieldsOf(req)[f]), keywords[i])

\* a keyword with a space in it whose first part ends one field and whose
\* second part begins the next field
StraddlesFields(req, keywords) ==
    \E f \in 1..3 : \E i \in 1..Len(keywords) :
        \E k \in 2..(Len(keywords[i]) - 1) :
            /\ SubSeq(keywords[i], k, k) = " "
            /\ EndsWith(lower(FieldsOf(req)[f]), SubSeq(keywords[i], 1, k - 1))
            /\ StartsWith(lower(FieldsOf(req)[f + 1]),
                          SubSeq(keywords[i], k + 1, Len(keywords[i])))

ModelFailed(rep) == rep.raises \/ rep.text = ""

IsModelAnswer(w) ==
    /\ Done(w)
    /\ calls[w] > 0
    /\ ~ModelFailed(reply[w])
    /\ result[w].status = HTTP_OK

Refusal(req) ==
    [status |-> HTTP_OK,
     body |-> [response |-> REFUSAL_TEXT, emergency |-> FALSE,
               symptom |-> req.symptom_name]]

PipelineToModel ==
    << "validate_name", "validate_description", "combine",
       "check_child_health", "check_emergency", "call_model" >>

\* ask_symptom as a function of one request body and one model outcome
Outcome(req, rep) ==
    IF req.symptom_name = "" \/ StrippedLen(req.symptom_name) < 2
      THEN [status |-> HTTP_BAD_REQUEST, body |-> [detail |-> NAME_DETAIL]]
    ELSE IF req.description = "" \/ StrippedLen(req.description) < 5
      THEN [status |-> HTTP_BAD_REQUEST, body |-> [detail |-> DESCRIPTION_DETAIL]]
    ELSE IF ~HasAllowed(req)
      THEN Refusal(req)
    ELSE IF HasEmergency(req)
      THEN [status |-> HTTP_OK,
            body |-> [response |-> EMERGENCY_TEXT, emergency |-> TRUE,
                      symptom |-> req.symptom_name]]
    ELSE IF rep.raises
      THEN [status |-> HTTP_SERVER_ERROR,
            body |-> [detail |-> ERROR_PREFIX \o rep.text]]
    ELSE IF rep.text = ""
      THEN [status |-> HTTP_SERVER_ERROR,
            body |-> [detail |-> ERROR_PREFIX \o EMPTY_REPLY_MESSAGE]]
    ELSE [status |-> HTTP_OK,
          body |-> [response |-> IF Contains(rep.text, "Disclaimer")
                                   THEN rep.text ELSE rep.text \o DISCLAIMER,
                    emergency |-> FALSE,
                    symptom |-> req.symptom_name,
                    severity |-> req.severity,
                    duration |-> req.duration]]

----------------------------------------------------------------------------
(* Properties *)

\* C1: every request that passes the length validation and whose combined
\* text contains an emergency keyword is answered 200 with emergency = TRUE
\* and the fixed emergency alert, whether or not the text also contains an
\* allow-listed keyword.
C1_EmergencyAlwaysAlerts ==
    \A w \in workers :
        (Done(w) /\ LongEnough(request[w]) /\ HasEmergency(request[w]))
        => /\ result[w].status = HTTP_OK
           /\ result[w].body.emergency = TRUE
           /\ result[w].body.response = EMERGENCY_TEXT

\* C2: for every valid child-health request answered by the model with a
\* non-empty text, the returned text contains the word "Disclaimer" exactly
\* once, whatever the model text was.
C2_DisclaimerExactlyOnce ==
    \A w \in workers :
        IsModelAnswer(w)
        => Count(result[w].body.response, "Disclaimer") = 1

\* C3: a finished request is answered 400 exactly when its name or its
\* description is empty or too short after stripping; a 400 is decided
\* before the combined text is built, before either classifier ran and
\* before any model call.
C3_ValidationRejects ==
    \A w \in workers :
        /\ Done(w) =>
             (result[w].status = HTTP_BAD_REQUEST <=> ~LongEnough(request[w]))
        /\ result[w].status = HTTP_BAD_REQUEST =>
             /\ calls[w] = 0
             /\ verdict[w] = NoVerdict
             /\ combined_query[w] = ""
             /\ \A i \in 1..Len(trace[w]) :
                    trace[w][i] \in {"validate_name", "validate_description"}

C3_Witness ==
    \E w \in workers :
        /\ Done(w)
        /\ result[w].status = HTTP_BAD_REQUEST
        /\ request[w].symptom_name = " a "
        /\ StrippedLen(request[w].description) >= 5
        /\ HasAllowed(request[w])
        /\ HasEmergency(request[w])

\* C4: a validated request whose lowercased combined text contains no
\* allow-listed keyword gets the fixed refusal with emergency = FALSE and
\* no model call; a keyword in any letter case in any one of the four
\* fields prevents the refusal.
C4_RefusalWithoutKeyword ==
    \A w \in workers :
        (Done(w) /\ LongEnough(request[w])) =>
            /\ ~HasAllowed(request[w]) =>
                 (result[w] = Refusal(request[w]) /\ calls[w] = 0)
            /\ FieldHas(request[w], ALLOWED_KEYWORDS) =>
                 (result[w].status = HTTP_OK =>
                    result[w].body.response # REFUSAL_TEXT)

C4_Witness ==
    \E w \in workers :
        /\ Done(w)
        /\ LongEnough(request[w])
        /\ ~HasAllowed(request[w])
        /\ result[w].body = Refusal(request[w]).body
        /\ calls[w] = 0

\* C5: once the model call was made, a call that raised or returned an
\* empty text never yields a 200 and ends in a 500 with a message; a call
\* that returned a non-empty text ends in a 200 with emergency = FALSE.
C5_ModelFailureIs500 ==
    \A w \in workers :
        calls[w] > 0 =>
            /\ ModelFailed(reply[w]) => result[w].status # HTTP_OK
            /\ Done(w) =>
                 IF ModelFailed(reply[w])
                   THEN /\ result[w].status = HTTP_SERVER_ERROR
                        /\ StartsWith(result[w].body.detail, ERROR_PREFIX)
                   ELSE /\ result[w].status = HTTP_OK
                        /\ result[w].body.emergency = FALSE

C5_Witness ==
    \E w \in workers :
        /\ Done(w)
        /\ calls[w] = 1
        /\ ~reply[w].raises
        /\ reply[w].text = ""
        /\ result[w].status = HTTP_SERVER_ERROR

\* C6: every 200 response carries the response text, the emergency flag
\* and the echoed fields symptom, severity and duration, each equal to the
\* submitted value.
C6_EveryOkEchoesAllFields ==
    \A w \in workers :
        (Done(w) /\ result[w].status = HTTP_OK) =>
            /\ {"response", "emergency", "symptom", "severity", "duration"}
                 \subseteq DOMAIN result[w].body
            /\ result[w].body.symptom = request[w].symptom_name
            /\ result[w].body.severity = request[w].severity
            /\ result[w].body.duration = request[w].duration

\* C7: the model is called at most once per request, and only after name
\* validation, description validation, the allow-list match and the
\* emergency check, in that order, all passed; a request that ends in 400,
\* in the refusal or in the emergency alert never called it; a failed call
\* is not repeated.
C7_ModelCalledAtMostOnce ==
    \A w \in workers :
        /\ calls[w] <= 1
        /\ calls[w] = 1 =>
             /\ Len(trace[w]) >= Len(PipelineToModel)
             /\ SubSeq(trace[w], 1, Len(PipelineToModel)) = PipelineToModel
             /\ LongEnough(request[w])
             /\ HasAllowed(request[w])
             /\ ~HasEmergency(request[w])
        /\ calls[w] = 0 =>
             \A i \in 1..Len(trace[w]) : trace[w][i] # "call_model"
        /\ (Done(w) /\ (\/ result[w].status = HTTP_BAD_REQUEST
                        \/ verdict[w].child = "no"
                        \/ verdict[w].emergency = "yes")) =>
             calls[w] = 0

C7_Witness ==
    \E w \in workers :
        /\ Done(w)
        /\ calls[w] = 1
        /\ reply[w].raises
        /\ result[w].status = HTTP_SERVER_ERROR

\* every finished request's outcome is the function of its own four fields
\* and of the model's reply to it
C8_OutcomeIsOwn ==
    \A w \in workers :
        Done(w) => result[w] = Outcome(request[w], reply[w])

LocalsOf(w) ==
    << pc[w], request[w], combined_query[w], structured_query[w], reply[w],
       exc[w], verdict[w], result[w], calls[w], trace[w] >>

\* a step is taken by one worker and changes that worker's request only
C8_StepIsOwn ==
    \E w \in workers :
        \A v \in workers \ {w} : LocalsOf(v)' = LocalsOf(v)

\* C8: with several requests in flight, under every interleaving, every
\* finished request's outcome is the function of its own four fields and of
\* the model's reply to it, and a step of one request leaves every other
\* request's state as it was.
C8_RequestsIndependent == [](C8_OutcomeIsOwn) /\ [][C8_StepIsOwn]_vars

C8_Witness ==
    \E w \in workers : \E v \in workers \ {w} :
        /\ Done(w) /\ Done(v)
        /\ request[w] # request[v]
        /\ calls[w] = 1 /\ calls[v] = 1
        /\ result[w].status = HTTP_OK
        /\ result[v].status = HTTP_SERVER_ERROR

\* C9: sanitize_response only appends and is idempotent: its result starts
\* with its argument, contains "Disclaimer", is a fixed point, and equals
\* the argument exactly when the argument already contains "Disclaimer"
\* (case-sensitively).
C9_SanitizeAppendsOnce ==
    \A w \in workers :
        IsModelAnswer(w) =>
            LET t == reply[w].text
                s == result[w].body.response
            IN  /\ StartsWith(s, t)
                /\ Contains(s, "Disclaimer")
                /\ sanitize_response(s) = s
                /\ (s = t <=> Contains(t, "Disclaimer"))
                /\ (s # t => s = t \o DISCLAIMER)

C9_Witness ==
    \E w \in workers :
        /\ IsModelAnswer(w)
        /\ reply[w].text = "Rest. disclaimer: ask a doctor."
        /\ result[w].body.response # reply[w].text

\* C10: both classifiers run on the lowercased four fields joined by single
\* spaces in the order name, description, severity, duration, and match
\* keywords as substrings: a keyword inside any single field matches, and a
\* multi-word keyword that straddles two adjacent fields matches too.
C10_ClassifiersSeeJoinedText ==
    \A w \in workers :
        /\ verdict[w].child # "unset" =>
             /\ combined_query[w] = JoinedLower(request[w])
             /\ verdict[w].child = YesNo(HasAllowed(request[w]))
             /\ FieldHas(request[w], ALLOWED_KEYWORDS)
                  => verdict[w].child = "yes"
             /\ StraddlesFields(request[w], ALLOWED_KEYWORDS)
                  => verdict[w].child = "yes"
        /\ verdict[w].emergency # "unset" =>
             /\ combined_query[w] = JoinedLower(request[w])
             /\ verdict[w].emergency = YesNo(HasEmergency(request[w]))
             /\ FieldHas(request[w], EMERGENCY_KEYWORDS)
                  => verdict[w].emergency = "yes"
             /\ StraddlesFields(request[w], EMERGENCY_KEYWORDS)
                  => verdict[w].emergency = "yes"

C10_Witness ==
    \E w \in workers :
        /\ verdict[w].emergency = "yes"
        /\ StraddlesFields(request[w], EMERGENCY_KEYWORDS)
        /\ ~FieldHas(request[w], EMERGENCY_KEYWORDS)

====
